---- MODULE Spec2Model ----
(***************************************************************************)
(* The vouch-graph command of libra-tool: fetchRootAddresses, the          *)
(* recursive walk fetchVouchGraph, the collection of the graph's addresses *)
(* and the trust scoring calculateAddressScores, followed by the rendering *)
(* of the diagram.  The callback runs on one thread and only gives up      *)
(* control at the await of a ledger query, so the states are the points    *)
(* where a query is in flight and the points between the phases; an action *)
(* is everything the code does from one such point to the next.            *)
(*                                                                         *)
(* The ledger is external.  Its answers are inputs of the actions that     *)
(* receive them; the voucher list answered for an address is remembered   *)
(* in `ledger` so that the relation is the same for the whole run.  An     *)
(* answer may also throw or have a shape the code does not accept.         *)
(***************************************************************************)
EXTENDS Integers, Sequences, FiniteSets, TLC

\* ------------------------------------------------------------------ bounds
NumAddr == 3          \* addresses are 1..NumAddr
MaxVouchers == 2      \* longest voucher list the ledger answers
MaxVouchDepth == 3    \* largest --vouch-depth tried
MaxScoreDepth == 2    \* largest --score-depth tried (0 = unlimited)
MaxFaults == 1        \* voucher queries of one run that may fail
PairNumAddr == 4      \* addresses of the comparison of two walks: 1..PairNumAddr

Address == 1..NumAddr
VoucherLists == UNION {[1..n -> Address] : n \in 0..MaxVouchers}

\* Shapes of an answer of vouch_getReceivedVouches that does not throw:
\*   "pair"     [addresses, epochs], both arrays
\*   "noEpochs" a 2-element array whose first element is an array, the second not
\*   "other"    anything else
Shapes == {"pair", "noEpochs", "other"}

ROOT_SCORE == 200000

VARIABLES
  pc,                 \* position of the command's action callback
  normalizedAddress,  \* the start address
  vouchDepth,         \* --vouch-depth
  scoreDepth,         \* --score-depth
  ledger,             \* voucher list the ledger holds for each address
  known,              \* addresses whose voucher list has been answered
  rootAddresses,      \* Set built from fetchRootAddresses' result
  rootsAnswer,        \* how the registry answered: "none" yet, "ok", "misshaped", "throw"
  visited,            \* Set shared by all calls of fetchVouchGraph
  edges,              \* VouchEdge[] shared by all calls of fetchVouchGraph
  stack,              \* call stack of fetchVouchGraph
  allAddresses,       \* Set of the graph's addresses, in insertion order
  scores,             \* the ScoreMap
  targets,            \* addresses the for-of loop of the scoring has yet to take
  targetAddr,         \* the target being scored (0: none)
  queue,              \* BFS queue of the target being scored
  current,            \* queue entry whose vouchers are being fetched
  inflight,           \* ledger queries issued and not yet answered
  walkLookups,        \* per address, voucher queries issued by the walk
  deepest,            \* largest currentDepth a call of fetchVouchGraph has had
  walkAnswers,        \* addresses the walk expanded with an accepted answer
  failed,             \* <<phase, address, how>> of voucher queries that gave nothing
  warnings,           \* <<phase, address>> of logged warnings
  faults,             \* voucher queries so far that threw or were not accepted
  written,            \* whether the diagram file has been written
  firstRun            \* comparison of two walks: what the first one ended with

vars == <<pc, normalizedAddress, vouchDepth, scoreDepth, ledger, known,
          rootAddresses, rootsAnswer, visited, edges, stack, allAddresses,
          scores, targets, targetAddr, queue, current, inflight, walkLookups,
          walkAnswers, deepest, failed, warnings, faults, written, firstRun>>

\* What no step of one run of the command changes
cmdVars == <<normalizedAddress, vouchDepth, scoreDepth, firstRun>>
walkVars == <<visited, edges, stack, walkLookups, walkAnswers, deepest>>
scoreVars == <<allAddresses, scores, targets, targetAddr, queue, current>>

\* ----------------------------------------------------------------- helpers
Range(s) == {s[i] : i \in 1..Len(s)}

RECURSIVE Pow2(_)
Pow2(n) == IF n = 0 THEN 1 ELSE 2 * Pow2(n - 1)

\* Set.add on a Set kept as its insertion-ordered sequence
SetAdd(s, x) == IF x \in Range(s) THEN s ELSE Append(s, x)

NoEntry == [address |-> 0, depth |-> 0, path |-> {}]

NoRun == [order |-> "none", edges |-> <<>>, visited |-> {}, deepest |-> 0]


\* What the ledger can answer for an address: the list it has answered
\* before, or any list when it has not been asked yet.
Answers(a) == IF a \in known THEN {ledger[a]} ELSE VoucherLists

Top(s) == s[Len(s)]
Pop(s) == SubSeq(s, 1, Len(s) - 1)
SetTop(s, f) == [s EXCEPT ![Len(s)] = f]

\* The depth of the caller lost: every call made at depth 0
FrameAtDepthZero(a, d) == [address |-> a, currentDepth |-> 0, at |-> "entry", addresses |-> <<>>]

Frame(a, d) == [address |-> a, currentDepth |-> d, at |-> "entry", addresses |-> <<>>]

\* ------------------------------------------------------ fetchRootAddresses
\* The registry answers with a list of lists ("ok"), with anything else
\* ("misshaped"), or the query throws ("throw").
\* The error of the registry query swallowed like a misshaped answer
FetchRootsThrowsNever(answer) == FALSE

\* vouching.ts 26-29: a query that throws is logged and thrown again
FetchRootsThrows(answer) == answer = "throw"

\* vouching.ts 14-25: an answer of the expected shape gives its first element,
\* any other answer is logged and gives the empty list.
RootsOfAnswer(answer, rootsArray) == IF answer = "ok" THEN rootsArray ELSE {}

\* ---------------------------------------------------------- fetchVouchGraph
\* The cycle detection forgotten
AlreadyVisitedNever(address, vis) == FALSE

\* The start address never taken for visited
AlreadyVisitedExceptStart(address, vis) ==
  address \in vis /\ address # normalizedAddress

\* vouching.ts 45: cycle detection
AlreadyVisited(address, vis) == address \in vis

\* The depth bound off by one
ReachedMaxDepthLate(currentDepth, maxDepth) == currentDepth > maxDepth

\* vouching.ts 50: depth bound
ReachedMaxDepth(currentDepth, maxDepth) == currentDepth >= maxDepth

\* vouching.ts 62-64: the answer is a 2-element array of two arrays
WalkAccepts(shape) == shape = "pair"

\* The test of the root set negated
WalkRecursesRootsOnly(voucherAddress, roots) == voucherAddress \in roots

\* The roots recursed into like any other voucher
WalkRecursesAlways(voucherAddress, roots) == TRUE

\* vouching.ts 76: only a voucher that is not a root is recursed into
WalkRecurses(voucherAddress, roots) == voucherAddress \notin roots

\* The two ends of the edge swapped
EdgeReversed(voucherAddress, address) == [from |-> address, to |-> voucherAddress]

\* vouching.ts 70-73: the edge from a voucher to the address it vouches for
Edge(voucherAddress, address) == [from |-> voucherAddress, to |-> address]

Max(a, b) == IF a >= b THEN a ELSE b

\* vouching.ts 44-99: the calls of fetchVouchGraph on the stack run until one
\* of them awaits a query (its frame is at "await") or the outermost call has
\* returned (the stack is empty).
\* w = [stack, visited, edges, walkLookups, deepest].
RECURSIVE WalkRun(_, _, _)
WalkRun(w, maxDepth, roots) ==
  IF w.stack = <<>> THEN w
  ELSE
    LET f == Top(w.stack)
        called == [w EXCEPT !.deepest = Max(@, f.currentDepth)] IN
    CASE f.at = "entry" ->
           IF AlreadyVisited(f.address, w.visited)
             THEN WalkRun([called EXCEPT !.stack = Pop(@)], maxDepth, roots)
           ELSE IF ReachedMaxDepth(f.currentDepth, maxDepth)
             THEN WalkRun([called EXCEPT !.stack = Pop(@)], maxDepth, roots)
           ELSE [called EXCEPT !.visited = @ \cup {f.address},
                               !.stack = SetTop(@, [f EXCEPT !.at = "await"]),
                               !.walkLookups[f.address] = @ + 1]
      [] f.at = "loop" ->
           IF f.addresses = <<>>
             THEN WalkRun([w EXCEPT !.stack = Pop(@)], maxDepth, roots)
           ELSE
             LET voucherAddress == Head(f.addresses)
                 pushed == Append(w.edges, Edge(voucherAddress, f.address))
                 rest == SetTop(w.stack, [f EXCEPT !.addresses = Tail(@)])
             IN IF WalkRecurses(voucherAddress, roots)
                  THEN WalkRun([w EXCEPT !.edges = pushed,
                                         !.stack = Append(rest, Frame(voucherAddress,
                                                                      f.currentDepth + 1))],
                               maxDepth, roots)
                  ELSE WalkRun([w EXCEPT !.edges = pushed,
                                         !.stack = rest,
                                         !.visited = @ \cup {voucherAddress}],
                               maxDepth, roots)
      [] OTHER -> w

\* The error of one call ending every call of the walk
AfterThrowUnwind(stk) == <<>>

\* vouching.ts 57, 94-99: the catch is the call's own, which returns normally
AfterThrow(stk) == Pop(stk)

\* Every call on the stack with a query of its own in flight
WalkInflightAll(stk) == {<<"walk", stk[i].address>> : i \in DOMAIN stk}

\* The query a walk at rest is awaiting
WalkInflight(stk) == IF stk = <<>> THEN {} ELSE {<<"walk", Top(stk).address>>}

\* ------------------------------------------------- calculateAddressScores
\* Only the vouched-for end of every edge collected
RECURSIVE CollectTargets(_, _)
CollectTargets(acc, es) ==
  IF es = <<>> THEN acc
  ELSE CollectTargets(SetAdd(acc, Head(es).to), Tail(es))

\* vouch-graph.ts 72-77: the start address, then both ends of every edge
RECURSIVE CollectAddresses(_, _)
CollectAddresses(acc, es) ==
  IF es = <<>> THEN acc
  ELSE CollectAddresses(SetAdd(SetAdd(acc, Head(es).from), Head(es).to), Tail(es))

\* scoring.ts 21-28: 0 for every address, ROOT_SCORE for the roots among them
InitialScores(roots, all) ==
  [a \in all |-> IF a \in roots THEN ROOT_SCORE ELSE 0]

\* The roots scored like any other address
IsTargetAlways(addr, roots) == TRUE

\* scoring.ts 33: a root is no target
IsTarget(addr, roots) == addr \notin roots

\* The test for a given depth forgotten: depth 0 prunes every entry
PrunedAlsoUnlimited(depth, currentDepth) == currentDepth >= depth

\* scoring.ts 46: the depth bound, when one is given
Pruned(depth, currentDepth) == depth > 0 /\ currentDepth >= depth

\* scoring.ts 49: the entry is a root
ReachedRoot(address, roots) == address \in roots

\* The score divided by the number of hops instead of halved at each hop
PathScoreLinear(currentDepth) == ROOT_SCORE \div (currentDepth + 1)

\* scoring.ts 51: the contribution of a path that reached a root
PathScore(currentDepth) == ROOT_SCORE \div Pow2(currentDepth)

\* scoring.ts 63-65: a 2-element array whose first element is an array
ScoreAccepts(shape) == shape \in {"pair", "noEpochs"}

\* A root enqueued also when it is not in the graph
EnqueuesRootsAnywhere(voucherAddress, all, path) ==
  (voucherAddress \in all \/ voucherAddress \in rootAddresses) /\ voucherAddress \notin path

\* The test of the entry's path forgotten
EnqueuesOnPath(voucherAddress, all, path) == voucherAddress \in all

\* The restriction to the addresses of the graph forgotten
EnqueuesAnywhere(voucherAddress, all, path) == voucherAddress \notin path

\* scoring.ts 71: the voucher is in the graph and not on the entry's path
Enqueues(voucherAddress, all, path) ==
  voucherAddress \in all /\ voucherAddress \notin path

\* The voucher not added to the path of the entry pushed for it
ChildPathNotExtended(voucherAddress, entry) ==
  [address |-> voucherAddress, depth |-> entry.depth + 1, path |-> entry.path]

\* scoring.ts 73-79: the entry pushed for a voucher, with a path of its own
Child(voucherAddress, entry) ==
  [address |-> voucherAddress, depth |-> entry.depth + 1,
   path |-> entry.path \cup {voucherAddress}]

\* scoring.ts 67-81: the loop over the vouchers of an entry
RECURSIVE EnqueueVouchers(_, _, _, _)
EnqueueVouchers(q, addresses, entry, all) ==
  IF addresses = <<>> THEN q
  ELSE EnqueueVouchers(
         IF Enqueues(Head(addresses), all, entry.path)
           THEN Append(q, Child(Head(addresses), entry)) ELSE q,
         Tail(addresses), entry, all)

\* scoring.ts 38-40: the queue a target starts with
Seed(addr) == <<[address |-> addr, depth |-> 0, path |-> {addr}]>>

\* scoring.ts 31-57, 89-92: the loops of calculateAddressScores run until the
\* vouchers of an entry are queried (`current` is that entry) or every address
\* has been taken.  s = [scores, targets, targetAddr, queue, current].
RECURSIVE ScoreRun(_, _, _)
ScoreRun(s, depth, roots) ==
  IF s.current # NoEntry THEN s
  ELSE IF s.targetAddr = 0 THEN
    IF s.targets = <<>> THEN s
    ELSE IF ~IsTarget(Head(s.targets), roots)
      THEN ScoreRun([s EXCEPT !.targets = Tail(@)], depth, roots)
    ELSE ScoreRun([s EXCEPT !.targetAddr = Head(s.targets),
                            !.targets = Tail(@),
                            !.queue = Seed(Head(s.targets))], depth, roots)
  ELSE IF s.queue = <<>> THEN ScoreRun([s EXCEPT !.targetAddr = 0], depth, roots)
  ELSE
    LET entry == Head(s.queue) IN
    IF Pruned(depth, entry.depth)
      THEN ScoreRun([s EXCEPT !.queue = Tail(@)], depth, roots)
    ELSE IF ReachedRoot(entry.address, roots)
      THEN ScoreRun([s EXCEPT !.queue = Tail(@),
                              !.scores[s.targetAddr] = @ + PathScore(entry.depth)],
                    depth, roots)
    ELSE [s EXCEPT !.queue = Tail(@), !.current = entry]

\* The query a scoring at rest is awaiting
ScoreInflight(entry) == IF entry = NoEntry THEN {} ELSE {<<"score", entry.address>>}

\* ------------------------------------------------------------------- Init
\* vouch-graph.ts 19-46: the arguments are parsed and validated (vouch depth
\* >= 1, score depth >= 0) and nothing has been fetched.  Addresses are opaque
\* and only compared for equality, so the start address is fixed: every run
\* is a renaming of one that starts at the address NumAddr.
Init ==
  /\ pc = "start"
  /\ normalizedAddress = NumAddr
  /\ vouchDepth \in 1..MaxVouchDepth
  /\ scoreDepth \in 0..MaxScoreDepth
  /\ ledger = [a \in Address |-> <<>>]
  /\ known = {}
  /\ rootAddresses = {}
  /\ rootsAnswer = "none"
  /\ visited = {}
  /\ edges = <<>>
  /\ stack = <<>>
  /\ allAddresses = <<>>
  /\ scores = [a \in {} |-> 0]
  /\ targets = <<>>
  /\ targetAddr = 0
  /\ queue = <<>>
  /\ current = NoEntry
  /\ inflight = {}
  /\ walkLookups = [a \in Address |-> 0]
  /\ walkAnswers = {}
  /\ deepest = 0
  /\ failed = {}
  /\ warnings = {}
  /\ faults = 0
  /\ written = FALSE
  /\ firstRun = NoRun

\* --------------------------------------------------- the command: the roots
\* vouch-graph.ts 49-50, vouching.ts 10-11: the registry is queried
FetchRootsCall ==
  /\ pc = "start"
  /\ pc' = "roots"
  /\ inflight' = inflight \cup {<<"roots", 0>>}
  /\ UNCHANGED <<cmdVars, ledger, known, rootAddresses, rootsAnswer, walkVars,
                 scoreVars, failed, warnings, faults, written>>

\* vouching.ts 14-25, vouch-graph.ts 51-67: the registry answers; the root Set
\* is built, visited and edges are created and the walk is called on the start
\* address at depth 0.
\* vouching.ts 26-29, vouch-graph.ts 91-94: the query throws, fetchRootAddresses
\* throws again, the command's catch logs and exits with code 1.
FetchRootsAnswer(answer, rootsArray) ==
  /\ pc = "roots"
  /\ rootsAnswer' = answer
  /\ IF FetchRootsThrows(answer)
       THEN /\ pc' = "error"
            /\ inflight' = {}
            /\ UNCHANGED <<rootAddresses, walkVars>>
       ELSE /\ pc' = "walk"
            /\ rootAddresses' = RootsOfAnswer(answer, rootsArray)
            /\ \E w \in {WalkRun([stack |-> <<Frame(normalizedAddress, 0)>>,
                                  visited |-> {}, edges |-> <<>>,
                                  walkLookups |-> walkLookups, deepest |-> 0],
                                 vouchDepth, rootAddresses')} :
                 /\ stack' = w.stack
                 /\ visited' = w.visited
                 /\ edges' = w.edges
                 /\ walkLookups' = w.walkLookups
                 /\ deepest' = w.deepest
                 /\ inflight' = WalkInflight(w.stack)
            /\ UNCHANGED walkAnswers
  /\ UNCHANGED <<cmdVars, ledger, known, scoreVars, failed, warnings, faults, written>>

FetchRootsOk == \E rootsArray \in SUBSET Address : FetchRootsAnswer("ok", rootsArray)

FetchRootsMisshaped == FetchRootsAnswer("misshaped", {})

FetchRootsThrow == FetchRootsAnswer("throw", {})

\* ------------------------------------------------------------- the walk
WalkAwait == pc = "walk" /\ stack # <<>>

notWalk == <<cmdVars, rootAddresses, rootsAnswer, scoreVars, written>>

\* The walk goes on from the stack stk
WalkResume(stk) ==
  \E w \in {WalkRun([stack |-> stk, visited |-> visited, edges |-> edges,
                       walkLookups |-> walkLookups, deepest |-> deepest],
                      vouchDepth, rootAddresses)} :
     /\ stack' = w.stack
     /\ visited' = w.visited
     /\ edges' = w.edges
     /\ walkLookups' = w.walkLookups
     /\ deepest' = w.deepest
     /\ inflight' = WalkInflight(w.stack)

\* vouching.ts 60-93: the query returns.  An answer of the accepted shape is
\* looped over; any other answer is skipped without a word and the call
\* returns.
WalkLookupAnswer(shape) ==
  /\ WalkAwait
  /\ ~WalkAccepts(shape) => faults < MaxFaults
  /\ LET a == Top(stack).address IN
       IF WalkAccepts(shape)
         THEN \E addresses \in Answers(a) :
                /\ ledger' = [ledger EXCEPT ![a] = addresses]
                /\ known' = known \cup {a}
                /\ WalkResume(SetTop(stack, [Top(stack) EXCEPT !.at = "loop",
                                                               !.addresses = addresses]))
                /\ walkAnswers' = walkAnswers \cup {a}
                /\ failed' = failed
         ELSE /\ WalkResume(Pop(stack))
              /\ failed' = failed \cup {<<"walk", a, "misshaped">>}
              /\ UNCHANGED <<ledger, known, walkAnswers>>
  /\ faults' = IF WalkAccepts(shape) THEN faults ELSE faults + 1
  /\ UNCHANGED <<pc, notWalk, warnings>>

WalkLookupOk == WalkLookupAnswer("pair")

WalkLookupMisshaped == \E shape \in Shapes \ {"pair"} : WalkLookupAnswer(shape)

\* vouching.ts 94-98: the query throws, the catch logs a warning and the call
\* returns normally
WalkLookupThrow ==
  /\ WalkAwait
  /\ faults < MaxFaults
  /\ WalkResume(AfterThrow(stack))
  /\ failed' = failed \cup {<<"walk", Top(stack).address, "throw">>}
  /\ warnings' = warnings \cup {<<"walk", Top(stack).address>>}
  /\ faults' = faults + 1
  /\ UNCHANGED <<pc, notWalk, ledger, known, walkAnswers>>

\* ----------------------------------------------------------- the scoring
notScore == <<cmdVars, rootAddresses, rootsAnswer, walkVars, allAddresses, written>>

\* The scoring goes on from s
ScoreResume(s) ==
  \E t \in {ScoreRun(s, scoreDepth, rootAddresses)} :
     /\ scores' = t.scores
     /\ targets' = t.targets
     /\ targetAddr' = t.targetAddr
     /\ queue' = t.queue
     /\ current' = t.current
     /\ inflight' = ScoreInflight(t.current)

\* The walk not awaited: the command goes on while calls are on the stack
WalkNotAwaited(stk) == TRUE

\* vouch-graph.ts 59: the command awaits the outermost call of the walk
WalkReturned(stk) == stk = <<>>

\* vouching.ts 99, vouch-graph.ts 69-81, scoring.ts 17-61: the outermost call
\* of the walk has returned; the addresses of the graph are collected and
\* calculateAddressScores is called on them.
StartScoring ==
  /\ pc = "walk"
  /\ WalkReturned(stack)
  /\ pc' = "scoring"
  /\ allAddresses' = CollectAddresses(<<normalizedAddress>>, edges)
  /\ ScoreResume([scores |-> InitialScores(rootAddresses, Range(allAddresses')),
                  targets |-> allAddresses', targetAddr |-> 0, queue |-> <<>>,
                  current |-> NoEntry])
  /\ UNCHANGED <<cmdVars, rootAddresses, rootsAnswer, walkVars, written, ledger,
                 known, failed, warnings, faults>>

ScoreAwait == pc = "scoring" /\ current # NoEntry

ScoreState == [scores |-> scores, targets |-> targets, targetAddr |-> targetAddr,
               queue |-> queue, current |-> NoEntry]

\* scoring.ts 61-83: the query returns.  The vouchers of an accepted answer
\* are enqueued; any other answer is skipped without a word.
ScoreLookupAnswer(shape) ==
  /\ ScoreAwait
  /\ ~ScoreAccepts(shape) => faults < MaxFaults
  /\ IF ScoreAccepts(shape)
       THEN \E addresses \in Answers(current.address) :
              /\ ledger' = [ledger EXCEPT ![current.address] = addresses]
              /\ known' = known \cup {current.address}
              /\ ScoreResume([ScoreState EXCEPT
                    !.queue = EnqueueVouchers(queue, addresses, current,
                                              Range(allAddresses))])
              /\ failed' = failed
       ELSE /\ ScoreResume(ScoreState)
            /\ failed' = failed \cup {<<"score", current.address, "misshaped">>}
            /\ UNCHANGED <<ledger, known>>
  /\ faults' = IF ScoreAccepts(shape) THEN faults ELSE faults + 1
  /\ UNCHANGED <<pc, notScore, warnings>>

ScoreLookupOk == ScoreLookupAnswer("pair")

ScoreLookupMisshaped == \E shape \in Shapes \ {"pair"} : ScoreLookupAnswer(shape)

\* The entry whose query failed counted as a path that reached a root
ScoreAfterThrowCounted(s) ==
  [s EXCEPT !.scores[s.targetAddr] = @ + PathScore(current.depth)]

\* The error of one query ending the loops of the scoring
ScoreAfterThrowAbort(s) == [s EXCEPT !.queue = <<>>, !.targets = <<>>, !.targetAddr = 0]

\* scoring.ts 58, 84-89: the try is inside the while loop, so after the catch
\* the loops go on with the queue, the targets and the scores as they were
ScoreAfterThrow(s) == s

\* scoring.ts 84-88: the query throws, the catch logs a warning
ScoreLookupThrow ==
  /\ ScoreAwait
  /\ faults < MaxFaults
  /\ ScoreResume(ScoreAfterThrow(ScoreState))
  /\ failed' = failed \cup {<<"score", current.address, "throw">>}
  /\ warnings' = warnings \cup {<<"score", current.address>>}
  /\ faults' = faults + 1
  /\ UNCHANGED <<pc, notScore, ledger, known>>

\* scoring.ts 92, vouch-graph.ts 84-89: the ScoreMap is returned, the diagram
\* is generated and written.
WriteGraph ==
  /\ pc = "scoring"
  /\ current = NoEntry
  /\ pc' = "done"
  /\ written' = TRUE
  /\ UNCHANGED <<cmdVars, ledger, known, rootAddresses, rootsAnswer, walkVars,
                 scoreVars, inflight, failed, warnings, faults>>

\* ---------------------------------------------------------- specification
Next ==
  \/ FetchRootsCall
  \/ FetchRootsOk
  \/ FetchRootsMisshaped
  \/ FetchRootsThrow
  \/ WalkLookupOk
  \/ WalkLookupMisshaped
  \/ WalkLookupThrow
  \/ StartScoring
  \/ ScoreLookupOk
  \/ ScoreLookupMisshaped
  \/ ScoreLookupThrow
  \/ WriteGraph

Spec == Init /\ [][Next]_vars

\* ------------------------------------------------------ two walks compared
\* The walk of the command run twice against the same ledger: the second
\* walk gets, for every address the first one asked about, the same answer
\* or the same failure, the voucher lists either in the same order or
\* reversed.  The walk variables hold the walk that is running; firstRun
\* keeps what the first walk ended with.
PairAddress == 1..PairNumAddr
PairLists == UNION {[1..n -> PairAddress] : n \in 0..MaxVouchers}
Orders == {"same", "reversed"}

Reverse(s) == [i \in 1..Len(s) |-> s[Len(s) + 1 - i]]

\* The order in which the ledger returns a voucher list
Reorder(order, addresses) == IF order = "reversed" THEN Reverse(addresses) ELSE addresses

\* The visited Set of the run before used again
VisitedKept == visited

\* vouch-graph.ts 55: every run of the command creates its visited Set
NewVisited == {}

\* vouch-graph.ts 56: every run of the command creates its edge list
NewEdges == <<>>

\* vouch-graph.ts 54-67: the data structures are created and the walk is
\* called on the start address at depth 0
FirstCall(roots) ==
  WalkRun([stack |-> <<Frame(normalizedAddress, 0)>>, visited |-> NewVisited,
           edges |-> NewEdges, walkLookups |-> [a \in PairAddress |-> 0],
           deepest |-> 0], vouchDepth, roots)

\* The first walk has been called on the start address, which is not visited
\* and at a depth below maxDepth, so its vouchers are being queried.
PairInit ==
  /\ pc = "pairFirst"
  /\ normalizedAddress = PairNumAddr
  /\ vouchDepth \in 1..MaxVouchDepth
  /\ scoreDepth = 0
  /\ ledger = [a \in PairAddress |-> <<>>]
  /\ known = {}
  /\ rootAddresses \in SUBSET PairAddress
  /\ rootsAnswer = "ok"
  /\ visited = {normalizedAddress}
  /\ edges = <<>>
  /\ stack = <<[Frame(normalizedAddress, 0) EXCEPT !.at = "await"]>>
  /\ walkLookups = [a \in PairAddress |-> IF a = normalizedAddress THEN 1 ELSE 0]
  /\ deepest = 0
  /\ inflight = WalkInflight(stack)
  /\ walkAnswers = {}
  /\ allAddresses = <<>>
  /\ scores = [a \in {} |-> 0]
  /\ targets = <<>>
  /\ targetAddr = 0
  /\ queue = <<>>
  /\ current = NoEntry
  /\ failed = {}
  /\ warnings = {}
  /\ faults = 0
  /\ written = FALSE
  /\ firstRun = NoRun

PairAwait == pc \in {"pairFirst", "pairSecond"} /\ stack # <<>>

notPairWalk == <<normalizedAddress, vouchDepth, scoreDepth, rootAddresses,
                 rootsAnswer, scoreVars, written, firstRun>>

\* The ledger has not failed for the address before
NeverFailed(a) == \A f \in failed : f[2] # a

\* The ledger may fail for the address in this way: it did so before, or it
\* has not been asked about the address and may still fail
MayFail(a, how) ==
  /\ a \notin known
  /\ \/ <<"walk", a, how>> \in failed
     \/ NeverFailed(a) /\ faults < MaxFaults

\* The list the ledger holds for an address: the one it answered before, or
\* any list when it has not been asked yet
PairAnswers(a) == IF a \in known THEN {ledger[a]} ELSE PairLists

\* vouching.ts 60-91: the query returns an answer of the accepted shape
PairLookupOk ==
  /\ PairAwait
  /\ LET a == Top(stack).address IN
       /\ NeverFailed(a)
       /\ \E addresses \in PairAnswers(a) :
            /\ ledger' = [ledger EXCEPT ![a] = addresses]
            /\ known' = known \cup {a}
            /\ WalkResume(SetTop(stack,
                  [Top(stack) EXCEPT !.at = "loop",
                                     !.addresses = Reorder(firstRun.order, addresses)]))
            /\ walkAnswers' = walkAnswers \cup {a}
  /\ UNCHANGED <<pc, notPairWalk, failed, warnings, faults>>

\* vouching.ts 62-64, 92-93: the query returns an answer that is skipped
PairLookupMisshaped ==
  /\ PairAwait
  /\ LET a == Top(stack).address IN
       /\ MayFail(a, "misshaped")
       /\ \E shape \in Shapes : ~WalkAccepts(shape)
       /\ WalkResume(Pop(stack))
       /\ failed' = failed \cup {<<"walk", a, "misshaped">>}
       /\ faults' = IF NeverFailed(a) THEN faults + 1 ELSE faults
  /\ UNCHANGED <<pc, notPairWalk, ledger, known, walkAnswers, warnings>>

\* vouching.ts 94-98: the query throws
PairLookupThrow ==
  /\ PairAwait
  /\ LET a == Top(stack).address IN
       /\ MayFail(a, "throw")
       /\ WalkResume(AfterThrow(stack))
       /\ failed' = failed \cup {<<"walk", a, "throw">>}
       /\ warnings' = warnings \cup {<<"walk", a>>}
       /\ faults' = IF NeverFailed(a) THEN faults + 1 ELSE faults
  /\ UNCHANGED <<pc, notPairWalk, ledger, known, walkAnswers>>

\* vouch-graph.ts 54-67 again: the first walk has returned and the command is
\* run a second time, the ledger returning its lists in the given order
PairRestart(order) ==
  /\ pc = "pairFirst"
  /\ stack = <<>>
  /\ pc' = "pairSecond"
  /\ firstRun' = [order |-> order, edges |-> edges, visited |-> visited,
                  deepest |-> deepest]
  /\ \E w \in {FirstCall(rootAddresses)} :
       /\ stack' = w.stack
       /\ visited' = w.visited
       /\ edges' = w.edges
       /\ walkLookups' = w.walkLookups
       /\ deepest' = w.deepest
       /\ inflight' = WalkInflight(w.stack)
  /\ walkAnswers' = {}
  /\ UNCHANGED <<normalizedAddress, vouchDepth, scoreDepth, rootAddresses,
                 rootsAnswer, scoreVars, written, ledger, known, failed,
                 warnings, faults>>

PairRestartSame == PairRestart("same")

PairRestartReversed == PairRestart("reversed")

PairNext ==
  \/ PairLookupOk
  \/ PairLookupMisshaped
  \/ PairLookupThrow
  \/ PairRestartSame
  \/ PairRestartReversed

PairSpec == PairInit /\ [][PairNext]_vars


\* ------------------------------------------------------------------ claims
\* The edge by which v vouches for a
Vouch(v, a) == [from |-> v, to |-> a]

WalkDone == pc = "walk" /\ stack = <<>>

\* Number of edges that leave the voucher a
TimesVoucher(a) == Cardinality({i \in DOMAIN edges : edges[i].from = a})

\* C1: during one walk the vouchers of an address are queried at most once,
\* also when the address is reached through several ancestors, through a
\* cycle or through a vouch for itself.
C1_ExpandedAtMostOnce == \A a \in Address : walkLookups[a] <= 1

\* A finished walk in which an address that was expanded came up again as a
\* voucher: the start through a cycle, another address at least twice.
C1_Witness ==
  /\ WalkDone
  /\ \E a \in Address \ {normalizedAddress} :
       /\ walkLookups[a] = 1
       /\ TimesVoucher(a) >= 2
       /\ Vouch(normalizedAddress, a) \in Range(edges)
  /\ \E a \in Address : walkLookups[a] = 1 /\ Vouch(a, a) \in Range(edges)

\* C2: the vouchers of an address are queried only by a call whose depth is
\* less than maxDepth, and no call of the walk has a depth above maxDepth.
C2_DepthBound ==
  /\ deepest <= vouchDepth
  /\ \A i \in DOMAIN stack : stack[i].currentDepth < vouchDepth

\* The walk has made a call at depth maxDepth, which did not expand, and has
\* a query in flight.
C2_Witness ==
  /\ pc = "walk"
  /\ deepest = vouchDepth
  /\ stack # <<>>
  /\ Top(stack).currentDepth = vouchDepth - 1


\* The scoring has returned
ScoreDone == pc = "done"

AllSet == Range(allAddresses)

\* The vouchers the ledger has answered for an address
Vouchers(a) == IF a \in known THEN Range(ledger[a]) ELSE {}

NoDuplicates(s) == \A i, j \in DOMAIN s : s[i] = s[j] => i = j

NoScoreFailure == \A f \in failed : f[1] # "score"

\* The simple paths from t back to a root inside the address set: each
\* address of the path is vouched for by the next one, only the last is a root.
RootPaths(t) ==
  {p \in UNION {[1..n -> AllSet] : n \in 2..Cardinality(AllSet)} :
     /\ p[1] = t
     /\ NoDuplicates(p)
     /\ p[Len(p)] \in rootAddresses
     /\ \A i \in 1..(Len(p) - 1) : p[i] \notin rootAddresses /\ p[i + 1] \in Vouchers(p[i])}

Hops(p) == Len(p) - 1

RECURSIVE SumOfPaths(_)
SumOfPaths(ps) ==
  IF ps = {} THEN 0
  ELSE LET p == CHOOSE q \in ps : TRUE
       IN (ROOT_SCORE \div Pow2(Hops(p))) + SumOfPaths(ps \ {p})

\* The paths the depth bound keeps: fewer than scoreDepth hops, any when it is 0
PathsBelowDepth(t) == {p \in RootPaths(t) : scoreDepth = 0 \/ Hops(p) < scoreDepth}

\* C3 as stated: without a failed query, the score of a non-root address is
\* the sum of floor(200000 / 2^k) over its simple paths to a root of k hops,
\* k below scoreDepth when scoreDepth > 0.
C3_Original ==
  (ScoreDone /\ NoScoreFailure) =>
    \A t \in AllSet \ rootAddresses : scores[t] = SumOfPaths(PathsBelowDepth(t))

\* C3 amended: the same, provided no answer names the same voucher twice.
C3_PathSum ==
  (ScoreDone /\ NoScoreFailure /\ \A a \in known : NoDuplicates(ledger[a])) =>
    \A t \in AllSet \ rootAddresses : scores[t] = SumOfPaths(PathsBelowDepth(t))

\* Two paths of 1 and 2 hops from a target to a root: 100000 + 50000
C3_Witness ==
  /\ ScoreDone
  /\ NoScoreFailure
  /\ \A a \in known : NoDuplicates(ledger[a])
  /\ \E t \in AllSet \ rootAddresses :
       /\ {Hops(p) : p \in RootPaths(t)} = {1, 2}
       /\ Cardinality(RootPaths(t)) = 2
       /\ scores[t] = 150000

\* C4: once the ScoreMap is initialised, every root of the address set has
\* the score ROOT_SCORE, whatever the relation, the depth and the failures.
C4_RootScoreFixed ==
  pc \in {"scoring", "done"} =>
    \A r \in AllSet \cap rootAddresses : scores[r] = ROOT_SCORE

\* A scoring with a failed query that has given a non-root address a score,
\* while a root of the address set is itself vouched for by a root.
C4_Witness ==
  /\ ScoreDone
  /\ ~NoScoreFailure
  /\ \E t \in AllSet \ rootAddresses : scores[t] > 0
  /\ \E r \in AllSet \cap rootAddresses :
       \E i \in DOMAIN edges : edges[i].to = r /\ edges[i].from \in rootAddresses

\* C5 as stated: without a failed query, a non-root address with a simple path
\* to a root of at most scoreDepth hops (of any length when scoreDepth = 0)
\* has a score above 0.
C5_Original ==
  (ScoreDone /\ NoScoreFailure) =>
    \A t \in AllSet \ rootAddresses :
      (\E p \in RootPaths(t) : scoreDepth = 0 \/ Hops(p) <= scoreDepth) => scores[t] > 0

\* The addresses of the address set that a set of addresses reaches by
\* following vouchers
RECURSIVE Reach(_)
Reach(S) ==
  LET more == S \cup {v \in AllSet : \E a \in S : v \in Vouchers(a)}
  IN IF more = S THEN S ELSE Reach(more)

\* C6: a non-root address from which no root is reached inside the address
\* set has the score 0 in the returned ScoreMap.
C6_UnreachedIsZero ==
  ScoreDone =>
    \A t \in AllSet \ rootAddresses :
      Reach({t}) \cap rootAddresses = {} => scores[t] = 0

\* An address that reaches no root inside the address set although one of its
\* vouchers is a root: the walk did not expand it, so the root is not in the set.
C6_Witness ==
  /\ ScoreDone
  /\ \E t \in AllSet \ rootAddresses :
       /\ Reach({t}) \cap rootAddresses = {}
       /\ Vouchers(t) \cap rootAddresses # {}
       /\ Vouchers(t) \cap AllSet # {}


\* C7: when the walk has returned, the edge list holds the edge (v, a) exactly
\* when a was expanded with an accepted answer that lists v.  For the chain
\* A vouches for B vouches for C with root set {A}, the walk from C with
\* maxDepth 3 gives the edges (A,B), (B,C) and visited {C,B,A}.
ChainABC(A, B) ==
  /\ A # B /\ A # normalizedAddress /\ B # normalizedAddress
  /\ rootAddresses = {A}
  /\ vouchDepth = 3
  /\ failed = {}
  /\ normalizedAddress \in known /\ ledger[normalizedAddress] = <<B>>
  /\ B \in known => ledger[B] = <<A>>

C7_EdgesAreAnswers ==
  WalkDone =>
    /\ Range(edges) = UNION {{Vouch(v, a) : v \in Range(ledger[a])} : a \in walkAnswers}
    /\ \A A, B \in Address :
         ChainABC(A, B) =>
           /\ Range(edges) = {Vouch(A, B), Vouch(B, normalizedAddress)}
           /\ Len(edges) = 2
           /\ visited = {normalizedAddress, B, A}

\* A finished walk whose edges leave a root, an address that was visited
\* before and an address that was never expanded.
C7_Witness ==
  /\ WalkDone
  /\ \E i \in DOMAIN edges : edges[i].from \in rootAddresses
  /\ \E i \in DOMAIN edges :
       edges[i].from \notin rootAddresses /\ walkLookups[edges[i].from] = 0
  /\ \E i \in DOMAIN edges : edges[i].from = normalizedAddress

\* The chain of scenario B, walked to the end
C7_ChainWalked == WalkDone /\ \E A, B \in Address : ChainABC(A, B) /\ B \in known

\* The walk in which every query is answered, an address that was not
\* answered in the run having no vouchers
AnsweredVouchers(a) == IF a \in walkAnswers THEN ledger[a] ELSE <<>>

RECURSIVE FreeWalk(_)
FreeWalk(w) ==
  IF w.stack = <<>> THEN w
  ELSE FreeWalk(WalkRun([w EXCEPT !.stack =
                           SetTop(@, [Top(@) EXCEPT !.at = "loop",
                                        !.addresses = AnsweredVouchers(Top(w.stack).address)])],
                        vouchDepth, rootAddresses))

FreeWalkFromStart ==
  FreeWalk(WalkRun([stack |-> <<Frame(normalizedAddress, 0)>>, visited |-> {},
                    edges |-> <<>>, walkLookups |-> [a \in Address |-> 0],
                    deepest |-> 0], vouchDepth, rootAddresses))

WalkThrew == {f[2] : f \in {g \in failed : g[1] = "walk" /\ g[3] = "throw"}}
WalkMisshaped == {f[2] : f \in {g \in failed : g[1] = "walk" /\ g[3] = "misshaped"}}

\* C8: a voucher query that throws during the walk does not abort the run: a
\* warning is logged, and the walk ends with the edges and the visited set of
\* the walk without failure over the same relation in which the address has
\* no vouchers.
C8_ThrowIsNoVouchers ==
  /\ pc = "error" => rootsAnswer = "throw"
  /\ \A a \in WalkThrew : <<"walk", a>> \in warnings
  /\ (WalkDone /\ WalkMisshaped = {}) =>
       /\ edges = FreeWalkFromStart.edges
       /\ visited = FreeWalkFromStart.visited
       /\ walkLookups = FreeWalkFromStart.walkLookups

\* A finished walk in which the query of an address other than the start
\* threw, with an edge pushed before the failure and one after it.
C8_Witness ==
  /\ WalkDone
  /\ \E x \in WalkThrew \ {normalizedAddress} :
       \E i, j \in DOMAIN edges :
         /\ i < j
         /\ edges[i].from = x
         /\ walkLookups[edges[j].to] = 1 /\ edges[j].to # normalizedAddress
         /\ edges[j].to \in walkAnswers

NoLookups ==
  /\ \A a \in Address : walkLookups[a] = 0
  /\ known = {}
  /\ inflight = {}
  /\ failed = {}

\* C9: when the query of the root registry throws, the whole operation
\* aborts: no voucher query is ever issued, no score is computed, no diagram
\* is written and the run has ended in error.
C9_RootFailureAborts ==
  rootsAnswer = "throw" =>
    /\ pc = "error"
    /\ NoLookups
    /\ stack = <<>> /\ edges = <<>> /\ visited = {}
    /\ allAddresses = <<>> /\ DOMAIN scores = {}
    /\ ~written

C9_Witness == pc = "error" /\ rootsAnswer = "throw" /\ NoLookups /\ ~written

\* C10 as stated: when the registry answers with a shape that is not a list
\* whose first element is a list, the operation aborts before any voucher
\* query is issued.
C10_Original ==
  rootsAnswer = "misshaped" => (pc = "error" /\ NoLookups /\ ~written)

\* C11 as stated: a voucher query that returns but not with a 2-element list
\* of lists is handled like one that throws, in the walk and in the scoring:
\* a warning is recorded for the address, and the walk ends as if the address
\* had no vouchers.
C11_Original ==
  /\ \A f \in failed : <<f[1], f[2]>> \in warnings
  /\ WalkDone =>
       /\ edges = FreeWalkFromStart.edges
       /\ visited = FreeWalkFromStart.visited

\* C12 as stated: an address whose voucher query has failed, in the walk or
\* in the scoring, has no voucher query issued for it afterwards.
C12_Original ==
  \A q \in inflight : q[1] \in {"walk", "score"} => \A f \in failed : f[2] # q[2]

\* Addresses with a voucher query that failed during the scoring
ScoreFailed == {f[2] : f \in {g \in failed : g[1] = "score"}}

\* The paths the depth bound keeps on which no address had a failed query
PathsAvoidingFailures(t) ==
  {p \in PathsBelowDepth(t) : \A i \in 1..(Len(p) - 1) : p[i] \notin ScoreFailed}

\* C13: a voucher query that fails during the scoring does not abort it: the
\* run never ends in error for it, the ScoreMap always has an entry for every
\* address of the address set, no score ever decreases, and the returned
\* scores count every path that does not go through an address whose query
\* failed, all targets and queue entries having been taken.
C13_ScoringSurvivesFailure ==
  /\ [](/\ pc = "error" => failed = {}
        /\ pc \in {"scoring", "done"} => DOMAIN scores = AllSet
        /\ ScoreDone =>
             /\ targets = <<>> /\ queue = <<>> /\ targetAddr = 0 /\ written
             /\ \A t \in AllSet \ rootAddresses :
                  scores[t] >= SumOfPaths(PathsAvoidingFailures(t)))
  /\ [][pc = "scoring" =>
         /\ DOMAIN scores' = DOMAIN scores
         /\ \A a \in DOMAIN scores : scores'[a] >= scores[a]]_vars

\* The query of the start address failed during the scoring and cost it its
\* paths, and another address has been given a score.
C13_Witness ==
  /\ ScoreDone
  /\ normalizedAddress \in ScoreFailed
  /\ normalizedAddress \notin rootAddresses
  /\ scores[normalizedAddress] < SumOfPaths(PathsBelowDepth(normalizedAddress))
  /\ \E t \in AllSet \ (rootAddresses \cup {normalizedAddress}) :
       scores[t] > 0 /\ scores[t] = SumOfPaths(PathsAvoidingFailures(t))

\* No answer the walk has accepted names the same voucher twice
WalkAnswersDistinct == \A a \in walkAnswers : NoDuplicates(ledger[a])

\* C14: provided no answer names the same voucher twice, the edge list holds
\* at most one edge per (from, to) pair, in every state of the walk and after.
C14_EdgesDistinct == WalkAnswersDistinct => NoDuplicates(edges)

\* A finished walk over answers without repetition with four edges or more,
\* in which the start address came up again as a voucher and some address
\* vouches for two addresses.
C14_Witness ==
  /\ WalkDone
  /\ WalkAnswersDistinct
  /\ Len(edges) >= 4
  /\ TimesVoucher(normalizedAddress) >= 1
  /\ \E a \in Address \ {normalizedAddress} : TimesVoucher(a) >= 2

\* Addresses the walk has expanded: it issued a voucher query for them
Expanded == {a \in Address : walkLookups[a] > 0}

\* C15 as stated: for every start address and root set, the walk never
\* issues a voucher query for a root, so no edge points to a root.
C15_Original ==
  /\ Expanded \cap rootAddresses = {}
  /\ \A i \in DOMAIN edges : edges[i].to \notin rootAddresses

\* C15 amended: the walk issues no voucher query for a root other than the
\* start address, so an edge that points to a root points to the start
\* address.
C15_RootsAreLeaves ==
  /\ Expanded \cap rootAddresses \subseteq {normalizedAddress}
  /\ \A i \in DOMAIN edges :
       edges[i].to \in rootAddresses => edges[i].to = normalizedAddress

\* A finished walk from a start address that is a root and was expanded,
\* with an edge to it from another root that was left alone.
C15_Witness ==
  /\ WalkDone
  /\ normalizedAddress \in rootAddresses
  /\ \E r \in rootAddresses \ {normalizedAddress} :
       /\ Vouch(r, normalizedAddress) \in Range(edges)
       /\ walkLookups[r] = 0
       /\ r \in visited
  /\ \E a \in Expanded \ rootAddresses : \E r \in rootAddresses :
       Vouch(r, a) \in Range(edges)

\* ------------------------------------------------- claims on the two walks
\* The second walk has returned
PairDone == pc = "pairSecond" /\ stack = <<>>

C17_OrderMatters ==
  (PairDone /\ Range(edges) # Range(firstRun.edges)) =>
    /\ firstRun.order = "reversed"
    /\ Max(deepest, firstRun.deepest) = vouchDepth

C17_Witness ==
  /\ PairDone
  /\ Range(edges) # Range(firstRun.edges)
  /\ failed = {}
  /\ \A a \in known : NoDuplicates(ledger[a])
  /\ firstRun.order = "reversed"

\* The nodes the renderer draws: the start address and both ends of every edge
GraphNodes ==
  {normalizedAddress} \cup {edges[i].from : i \in DOMAIN edges}
                      \cup {edges[i].to : i \in DOMAIN edges}

\* C18: from the moment the ScoreMap exists, its keys are exactly the start
\* address and the ends of all edges, and every entry is a non-negative
\* integer.
C18_ScoreMapKeys ==
  pc \in {"scoring", "done"} =>
    /\ DOMAIN scores = GraphNodes
    /\ \A a \in DOMAIN scores : scores[a] \in Nat

\* A run that ended with a root, an address given a score above 0, an address
\* of score 0, and an end of an edge that the walk never visited.
C18_Witness ==
  /\ ScoreDone
  /\ GraphNodes \cap rootAddresses # {}
  /\ GraphNodes \ visited # {}
  /\ \E a \in GraphNodes \ rootAddresses : scores[a] > 0
  /\ \E a \in GraphNodes \ (rootAddresses \cup {normalizedAddress}) : scores[a] = 0

\* The queries that are in flight
InFlightNow ==
  IF pc = "roots" THEN {<<"roots", 0>>}
  ELSE IF pc = "walk" /\ stack # <<>> THEN {<<"walk", Top(stack).address>>}
  ELSE IF pc = "scoring" /\ current # NoEntry THEN {<<"score", current.address>>}
  ELSE {}

C20_InsideAddressSet ==
  pc \in {"scoring", "done"} =>
    /\ \A i \in DOMAIN queue :
         queue[i].address \in AllSet /\ queue[i].path \subseteq AllSet
    /\ current # NoEntry => current.address \in AllSet /\ current.path \subseteq AllSet
    /\ \A q \in inflight : q[1] = "score" /\ q[2] \in AllSet
    /\ \A t \in AllSet \ rootAddresses : scores[t] > 0 => PathsBelowDepth(t) # {}

\* The scoring is querying an entry enqueued for a target that has, among
\* its vouchers, a root outside the address set and an address inside it.
C20_Witness ==
  /\ pc = "scoring"
  /\ current # NoEntry
  /\ current.depth >= 1
  /\ targetAddr \in known
  /\ (Vouchers(targetAddr) \cap rootAddresses) \ AllSet # {}
  /\ scores[targetAddr] = 0

\* ------------------------------------------------------------ termination
\* The run has ended: the diagram is written or the command has exited
Ended == pc \in {"done", "error"}

\* A step of a run that has not ended can be taken as soon as the query in
\* flight, if there is one, returns: the registry is to be queried or has
\* been, a call of the walk or an entry of the scoring awaits its query, the
\* walk has returned, or the scoring has.
CanStep ==
  \/ pc \in {"start", "roots"}
  \/ WalkAwait
  \/ WalkDone
  \/ ScoreAwait
  \/ pc = "scoring" /\ current = NoEntry

\* Entries a queue entry can lead to, itself included, when k addresses of
\* the address set are not on its path
RECURSIVE BranchWeight(_)
BranchWeight(k) == IF k <= 0 THEN 1 ELSE 1 + MaxVouchers * BranchWeight(k - 1)

EntryWeight(e) == BranchWeight(Cardinality(AllSet) - Cardinality(e.path))

RECURSIVE QueueWeight(_)
QueueWeight(q) == IF q = <<>> THEN 0 ELSE EntryWeight(Head(q)) + QueueWeight(Tail(q))

TargetsLeft == Len(targets) + (IF targetAddr # 0 THEN 1 ELSE 0)

ScoreMeasure ==
  1 + TargetsLeft * (BranchWeight(NumAddr) + 1) + QueueWeight(queue)
    + (IF current # NoEntry THEN EntryWeight(current) ELSE 0)

ScoreMeasureMax == 1 + NumAddr * (BranchWeight(NumAddr) + 1) + BranchWeight(NumAddr)

WalkMeasure ==
  ScoreMeasureMax + 1 + 2 * Cardinality({a \in Address : walkLookups[a] = 0})
    + (IF stack # <<>> THEN 1 ELSE 0)

\* What a run has left to do at most
Measure ==
  CASE pc = "start" -> ScoreMeasureMax + 2 * NumAddr + 4
    [] pc = "roots" -> ScoreMeasureMax + 2 * NumAddr + 3
    [] pc = "walk" -> WalkMeasure
    [] pc = "scoring" -> ScoreMeasure
    [] OTHER -> 0

\* C21: for every relation the ledger can hold, cycles and self-vouches
\* included, every maxDepth and every scoreDepth, the walk and the scoring
\* terminate when every query returns or fails: a run that has not ended can
\* always take a step, and every step lowers a natural number that is 0 only
\* when the run has ended.
C21_Terminates ==
  /\ [](/\ Measure \in Nat
        /\ Measure = 0 <=> Ended
        /\ ~Ended => CanStep)
  /\ [][Measure' < Measure]_vars

\* A run with unlimited score depth that has ended over a relation with a
\* self-vouch and a cycle of two addresses, all of them scored.
C21_Witness ==
  /\ ScoreDone
  /\ scoreDepth = 0
  /\ vouchDepth = MaxVouchDepth
  /\ rootAddresses \cap AllSet # {}
  /\ \E a \in AllSet \ rootAddresses : a \in Vouchers(a)
  /\ \E a, b \in AllSet \ rootAddresses :
       a # b /\ a \in Vouchers(b) /\ b \in Vouchers(a)

\* The order of the phases of a run
PhaseRank ==
  CASE pc = "start" -> 0
    [] pc = "roots" -> 1
    [] pc = "walk" -> 2
    [] pc = "scoring" -> 3
    [] OTHER -> 4

\* C22: the phases of a run are strictly ordered.  The registry is queried
\* once, before any voucher query, and the root set it gave never changes;
\* every query of the walk precedes every query of the scoring, which starts
\* when no call of the walk is left and leaves the walk's results alone; the
\* diagram is written only when the scoring has returned, and nothing is
\* done after it.
C22_PhasesOrdered ==
  /\ [](/\ rootsAnswer = "none" <=> pc \in {"start", "roots"}
        /\ pc \in {"start", "roots"} =>
             /\ Expanded = {} /\ known = {} /\ failed = {}
             /\ rootAddresses = {} /\ inflight \subseteq {<<"roots", 0>>}
        /\ \A q \in inflight : q[1] = "walk" => pc = "walk"
        /\ \A q \in inflight : q[1] = "score" => pc = "scoring"
        /\ pc = "walk" => allAddresses = <<>> /\ current = NoEntry /\ NoScoreFailure
        /\ pc \in {"scoring", "done"} => stack = <<>>
        /\ written <=> pc = "done"
        /\ written =>
             targets = <<>> /\ queue = <<>> /\ current = NoEntry /\ inflight = {})
  /\ [][/\ PhaseRank' >= PhaseRank
        /\ pc' = "roots" => pc = "start"
        /\ rootsAnswer # "none" => rootAddresses' = rootAddresses /\ rootsAnswer' = rootsAnswer
        /\ pc \in {"scoring", "done"} => UNCHANGED <<walkLookups, edges, visited, allAddresses>>
        /\ ~written]_vars

\* A run that has written its diagram after a walk that expanded two
\* addresses and a scoring that found a path to a root.
C22_Witness ==
  /\ pc = "done"
  /\ written
  /\ Cardinality(Expanded) >= 2
  /\ \E t \in AllSet \ rootAddresses : scores[t] > 0 /\ t # normalizedAddress

\* The roots that an accepted answer of the walk named as a voucher
RootVouchers == {edges[i].from : i \in DOMAIN edges} \cap rootAddresses

\* Scenario A: the start address is the only root and has no vouchers
ScenarioA ==
  /\ rootAddresses = {normalizedAddress}
  /\ vouchDepth = 2
  /\ normalizedAddress \in walkAnswers
  /\ ledger[normalizedAddress] = <<>>

\* C23: an address is in visited before its query is issued, the start
\* address from the first call on; when the walk has returned, visited is
\* the set of addresses whose vouchers were queried together with the roots
\* that were named as a voucher of one of them.  A root start address
\* without vouchers gives no edge and visited = {start}.
C23_VisitedIsExpandedAndRoots ==
  /\ Expanded \subseteq visited
  /\ \A q \in inflight : q[1] = "walk" => q[2] \in visited
  /\ pc \in {"walk", "scoring", "done"} => normalizedAddress \in visited
  /\ WalkDone =>
       /\ visited = Expanded \cup RootVouchers
       /\ ScenarioA => edges = <<>> /\ visited = {normalizedAddress}

\* A finished walk that marked a root it did not expand and met a voucher
\* at maxDepth that it left unvisited.
C23_Witness ==
  /\ WalkDone
  /\ normalizedAddress \in walkAnswers
  /\ RootVouchers \ Expanded # {}
  /\ \E i \in DOMAIN edges : edges[i].from \notin visited

\* Scenario A, walked to the end
C23_ScenarioAWalked == WalkDone /\ ScenarioA

\* The entries the scoring holds: those in the queue and the one being queried
Entries == Range(queue) \cup (IF current # NoEntry THEN {current} ELSE {})

\* e is the entry pushed for a voucher of the entry parent
IsChildOf(e, parent) ==
  /\ parent # NoEntry
  /\ e.depth = parent.depth + 1
  /\ e.address \notin parent.path
  /\ e.path = parent.path \cup {e.address}

\* C24: the path of a queue entry is its own.  Every entry held for the
\* target T has T and its own address on its path, and the path holds
\* exactly depth + 1 addresses; an entry held after a step is an entry that
\* was in the queue before, unchanged, or the entry pushed for a voucher of
\* the entry that was queried, or the seed of the next target.
C24_PathIsBranchLocal ==
  /\ [](pc = "scoring" =>
          \A e \in Entries :
            /\ targetAddr # 0 /\ targetAddr \in e.path
            /\ e.address \in e.path
            /\ Cardinality(e.path) = e.depth + 1)
  /\ [][(pc = "scoring" /\ pc' = "scoring") =>
          \A e \in Entries' :
            \/ e \in Range(queue)
            \/ IsChildOf(e, current)
            \/ e.depth = 0 /\ e.path = {e.address} /\ e.address = targetAddr'
                  /\ targetAddr' # targetAddr]_vars

\* The entry being queried and an entry of the queue are for the same
\* address, which they reached by different paths of 1 and 2 hops.
C24_Witness ==
  /\ pc = "scoring"
  /\ current # NoEntry /\ current.depth = 1
  /\ \E i \in DOMAIN queue :
       /\ queue[i].address = current.address
       /\ queue[i].depth = 2
       /\ queue[i].path # current.path

\* C25 as stated: when the walk has returned, every end of an edge is in
\* visited, so the size of visited is the number of addresses of the graph.
C25_Original ==
  WalkDone =>
    /\ GraphNodes \subseteq visited
    /\ Cardinality(visited) = Cardinality(GraphNodes)

\* The addresses from which the start address is reached by at most k
\* recorded edges, each followed from its voucher to the address vouched for
RECURSIVE Within(_)
Within(k) ==
  IF k = 0 THEN {normalizedAddress}
  ELSE LET near == Within(k - 1)
       IN near \cup {edges[i].from : i \in {j \in DOMAIN edges : edges[j].to \in near}}

EdgeEnds == {edges[i].from : i \in DOMAIN edges} \cup {edges[i].to : i \in DOMAIN edges}

\* C26: in every state of the walk and after it, every end of a recorded
\* edge reaches the start address by a path of at most maxDepth recorded
\* edges.
C26_EdgesReachStart == EdgeEnds \subseteq Within(vouchDepth)

\* A walk with an end of an edge that is maxDepth = 2 edges from the start
\* address and no nearer, and an edge back to an address already visited.
C26_Witness ==
  /\ pc = "walk"
  /\ vouchDepth = 2
  /\ TimesVoucher(normalizedAddress) >= 1
  /\ EdgeEnds \ Within(1) # {}

\* The addresses at most k vouches away from the start address, going from
\* an address to its vouchers and on from non-root addresses only
RECURSIVE NearVouchers(_)
NearVouchers(k) ==
  IF k = 0 THEN {normalizedAddress}
  ELSE LET near == NearVouchers(k - 1)
           through == {a \in near \cap known :
                         a \notin rootAddresses \/ a = normalizedAddress}
       IN near \cup UNION {Range(ledger[a]) : a \in through}

\* C27 as stated: when a walk without failure has returned, every non-root
\* address less than maxDepth vouches away from the start address has had
\* its vouchers queried.
C27_Original ==
  (pc \in {"pairFirst", "pairSecond"} /\ stack = <<>> /\ failed = {}) =>
    \A a \in NearVouchers(vouchDepth - 1) \ rootAddresses : walkLookups[a] > 0

\* The paths the depth bound keeps that are made of recorded edges only
EdgePaths(t) ==
  {p \in PathsBelowDepth(t) :
     \A i \in 1..(Len(p) - 1) : Vouch(p[i + 1], p[i]) \in Range(edges)}

\* C28 as stated: in a run without failure or repeated voucher, the paths
\* that contribute to a score are made of edges of the walk only, so the
\* score of an address is the sum over the root-reaching paths of the drawn
\* graph.
C28_Original ==
  (ScoreDone /\ failed = {} /\ \A a \in known : NoDuplicates(ledger[a])) =>
    \A t \in AllSet \ rootAddresses : scores[t] = SumOfPaths(EdgePaths(t))

\* The voucher list the ledger holds for an address, empty when the run has
\* not learnt it
KnownVouchers(a) == IF a \in known THEN ledger[a] ELSE <<>>

\* The scoring run to its end on the answers the ledger holds, from a state
\* t at rest
RECURSIVE FreeScore(_, _)
FreeScore(t, depth) ==
  IF t.current = NoEntry THEN t
  ELSE FreeScore(ScoreRun([t EXCEPT !.current = NoEntry,
                                    !.queue = EnqueueVouchers(t.queue,
                                                KnownVouchers(t.current.address),
                                                t.current, AllSet)],
                          depth, rootAddresses), depth)

\* The ScoreMap of the scoring without failure of the run's address set
\* with the given score depth
ScoresAtDepth(depth) ==
  FreeScore(ScoreRun([scores |-> InitialScores(rootAddresses, AllSet),
                      targets |-> allAddresses, targetAddr |-> 0,
                      queue |-> <<>>, current |-> NoEntry],
                     depth, rootAddresses), depth).scores

\* Score depths to compare: the given ones from 1 up
GivenDepths == 1..(MaxScoreDepth + 1)

\* C29: scores are monotone in scoreDepth.  A scoring without failure ends
\* with the scores computed from the ledger's answers at its score depth;
\* over the answers of an unlimited run, the same root set and address set
\* give every address, for 0 < d1 <= d2, a score with depth d1 that is at
\* most its score with depth d2, which is at most its unlimited score.
C29_MonotoneInScoreDepth ==
  (ScoreDone /\ NoScoreFailure) =>
    /\ scores = ScoresAtDepth(scoreDepth)
    /\ scoreDepth = 0 =>
         \A table \in {[d \in GivenDepths |-> ScoresAtDepth(d)]} :
           \A a \in AllSet :
             /\ \A d1, d2 \in GivenDepths : d1 <= d2 => table[d1][a] <= table[d2][a]
             /\ \A d \in GivenDepths : table[d][a] <= scores[a]

\* An unlimited run without failure in which an address has the score 0
\* with depth 1, a higher one with depth 2 and a higher one still with
\* depth 3.
C29_Witness ==
  /\ ScoreDone
  /\ NoScoreFailure
  /\ scoreDepth = 0
  /\ \E a \in AllSet \ rootAddresses :
       /\ ScoresAtDepth(1)[a] = 0
       /\ ScoresAtDepth(2)[a] > 0
       /\ ScoresAtDepth(3)[a] > ScoresAtDepth(2)[a]
       /\ scores[a] = ScoresAtDepth(3)[a]

\* C30: failed queries of the scoring can only lower scores.  No score is
\* ever negative, and a scoring ends with every score at most the score of
\* the scoring without failure over the same root set, address set and score
\* depth; it is compared with the lowest such score, the one for a ledger
\* in which an address that was never answered has no vouchers.
C30_FailuresOnlyLower ==
  /\ \A a \in DOMAIN scores : scores[a] >= 0
  /\ ScoreDone =>
       \A free \in {ScoresAtDepth(scoreDepth)} :
         \A a \in AllSet : scores[a] <= free[a]

\* A scoring with a failed query that ended with one address below its
\* score without failure and another address at its score without failure,
\* above 0.
C30_Witness ==
  /\ ScoreDone
  /\ ScoreFailed # {}
  /\ \E a, b \in AllSet \ rootAddresses :
       /\ scores[a] < ScoresAtDepth(scoreDepth)[a]
       /\ scores[b] = ScoresAtDepth(scoreDepth)[b]
       /\ scores[b] > 0

====
